---- MODULE Spec2Model ----
(***************************************************************************)
(* Model of nytl::Callback (src/nytl/callback.hpp) and of the connection   *)
(* types of src/nytl/connection.hpp.                                       *)
(*                                                                         *)
(* The registry is the chain of CallbackSlot nodes that starts at slots_;  *)
(* it is modelled as the sequence of the nodes in chain order.  A node is  *)
(* [fn, id]: fn names the node and the function stored in it (the          *)
(* listener registered by the fn-th add, which returns Result(fn)), id is  *)
(* the node's id field, which reset() sets to 0.                           *)
(*                                                                         *)
(* call() walks the chain by position: it reads stackIter.current as idx,  *)
(* tests idx < slots.size(), takes slots[idx] and increments idx.          *)
(* CallIter declares next and above; checkErase() compares and assigns     *)
(* next.  A frame of the model therefore carries current (written by       *)
(* call), next (written by checkErase) and above, each used exactly where  *)
(* the source uses it.  Positions are 0-based as in the source.            *)
(*                                                                         *)
(* A frame lives on the C++ stack of its call(); its address is modelled   *)
(* as its depth on that stack, 0 being the null pointer.                   *)
(***************************************************************************)
EXTENDS Integers, Sequences, FiniteSets, TLC

\* Bounds of the model.
MaxID == 3          \* at most this many registrations are ever made
MaxDepth == 2       \* at most this many call() invocations are nested
MaxOps == 6         \* at most this many operations are made by client code

\* Arguments a caller may pass to call().
Args == {1, 2}

\* The ConnectionT objects client code holds: copies of what add() returned.
Conns == {1, 2}

VARIABLES
    slots_,         \* the chain of CallbackSlot nodes, in chain order
    highestID_,     \* Callback::highestID_
    callIter_,      \* Callback::callIter_: address of the innermost CallIter, 0 = null
    stack,          \* the call() invocations in progress, outermost first
    crashed,        \* the process ended after undefined behaviour
    guard,          \* one UniqueConnectionT object
    ops,            \* number of operations client code has made
    obs,            \* what the last step returned to its caller, if it returned
    issued,         \* history: the ids returned by add(), in order
    cancelled,      \* history: the nodes that a disconnect(id) targeted while live
    forwards,       \* history: disconnect()/destructor calls on the guard, and how many
                    \* of them forwarded disconnect(id) to the registry
    zeroed,         \* the ids whose shared cell holds 0 (TrackedConnectionID::reset)
    wiped,          \* history: highestID_ when clear() was last called
    conns,          \* the ConnectionT objects client code holds
    connlog,        \* history: per ConnectionT object, the id it was given, its
                    \* disconnect() calls and how many of them forwarded
                    \* disconnect(id) to the registry
    other,          \* a second UniqueConnectionT object
    moved,          \* history: the last move assignment between the two guards
    rel,            \* history: the last release() of the guard
    gone            \* the Callback object has been destroyed

vars == <<slots_, highestID_, callIter_, stack, crashed, guard, ops, obs,
          issued, cancelled, forwards, zeroed, wiped, conns, connlog, other,
          moved, rel, gone>>

\* What the operations of the Callback itself leave alone.
clientVars == <<conns, connlog, other, moved, rel, gone>>

----------------------------------------------------------------------------
\* Helpers on sequences.

Range(s) == {s[i] : i \in 1..Len(s)}

Min(S) == CHOOSE x \in S : \A y \in S : x <= y

\* The nodes of a chain, by name.
Fns(s) == [i \in 1..Len(s) |-> s[i].fn]

\* The listeners a frame has invoked, in order.
VisitedFns(f) == [i \in 1..Len(f.visited) |-> f.visited[i][1]]

\* What the listener stored in node fn returns.
Result(fn) == fn

\* A default-constructed connection handle.
NoConn == [fn |-> 0, conn |-> FALSE, id |-> 0]

\* A default-constructed ConnectionT: connectable_ {}, id_ {}.
NoHandle == [conn |-> FALSE, id |-> 0]

\* Some entry of the chain carries this nonzero id.
Live(s, id) == id # 0 /\ \E i \in 1..Len(s) : s[i].id = id

\* The node carrying this id (0 when there is none).
Target(s, id) ==
    IF Live(s, id) THEN s[Min({i \in 1..Len(s) : s[i].id = id})].fn ELSE 0

----------------------------------------------------------------------------
\* The registry: Callback::emplace, add, disconnect, clear.

\* Variant of NextID: the id is taken from the number of registered entries.
NextIDFromSize(h) == Len(slots_) + 1

\* ++highestID_
NextID(h) == h + 1

\* Variant of emplace: the new node becomes the head of the chain.
emplaceFront(s, h) == <<[fn |-> NextID(h), id |-> NextID(h)]>> \o s

\* Callback::emplace: a new node with the next id is linked behind the tail
\* (or becomes the head of an empty chain).
emplace(s, h) == Append(s, [fn |-> NextID(h), id |-> NextID(h)])

\* Callback::disconnect on the chain s.  slots is the chain afterwards, ret the
\* value returned, erase the checkErase(slot) calls it makes when callIter_ is
\* set, each as <<slot, slot->next>>, freed the node it deletes (0: none) and
\* reset the ids on which it calls reset().
\*   - the "first" branch unlinks and deletes the head and falls through to
\*     the loop (it has no return);
\*   - the loop looks at it->next->id and, on a match, resets it->id, the id of
\*     the node before the match, passes it to checkErase and returns true
\*     without unlinking anything.
disconnect(s, id) ==
    IF id = 0 \/ s = <<>>
    THEN [slots |-> s, ret |-> FALSE, erase |-> <<>>, freed |-> 0, reset |-> {}]
    ELSE LET first == s[1].id = id
             e1 == IF first
                   THEN << <<s[1].fn, IF Len(s) > 1 THEN s[2].fn ELSE 0>> >>
                   ELSE <<>>
             t == IF first THEN Tail(s) ELSE s
             hits == {i \in 1..(Len(t) - 1) : t[i + 1].id = id}
             fr == IF first THEN s[1].fn ELSE 0
             z1 == IF first THEN {s[1].id} ELSE {}
         IN  IF hits = {}
             THEN [slots |-> t, ret |-> FALSE, erase |-> e1, freed |-> fr,
                   reset |-> z1]
             ELSE LET i == Min(hits)
                  IN  [slots |-> [t EXCEPT ![i].id = 0], ret |-> TRUE,
                       erase |-> e1 \o << <<t[i].fn, t[i + 1].fn>> >>,
                       freed |-> fr, reset |-> z1 \cup ({t[i].id} \ {0})]

\* Variant of clear: the ids are reset, the nodes stay in the chain.
clearKeepsNodes(s) == [i \in 1..Len(s) |-> [s[i] EXCEPT !.id = 0]]

\* Callback::clear: every id is reset and the chain is emptied.
clear(s) == <<>>

\* CallIter::checkErase on one frame: if(slot == next) next = slot->next.
checkErase(f, slot, succ) ==
    [f EXCEPT !.next = IF slot = @ THEN succ ELSE @]

\* checkErase follows above from the innermost frame outward: every frame of
\* the chain gets each call.
RECURSIVE EraseAll(_, _)
EraseAll(st, erase) ==
    IF erase = <<>> THEN st
    ELSE EraseAll([k \in 1..Len(st) |-> checkErase(st[k], erase[1][1], erase[1][2])],
                  Tail(erase))

\* callIter_ and the above links lead through exactly the frames of the calls
\* in progress.  After a call() was left by an exception this is false:
\* callIter_ (or an above link) still holds the address of a dead frame.
ChainOK ==
    /\ callIter_ = Len(stack)
    /\ \A k \in 1..Len(stack) : stack[k].above = k - 1

\* A listener is executing in the innermost call, or no call is in progress:
\* the places from which client code can use the registry, as long as the
\* registry exists.
CanAct ==
    /\ ~crashed
    /\ ~gone
    /\ (stack # <<>> => stack[Len(stack)].run.fn # 0)

\* History kept in the frames: what happened while each call was in progress.
Note(st, kind, tgts) ==
    [k \in 1..Len(st) |->
        [st[k] EXCEPT !.ev = @ \cup {kind},
                      !.skip = @ \cup (tgts \ Range(VisitedFns(st[k])))]]

----------------------------------------------------------------------------
\* Initial state: a default-constructed Callback and no guard object.

Init ==
    /\ slots_ = <<>>
    /\ highestID_ = 0
    /\ callIter_ = 0
    /\ stack = <<>>
    /\ crashed = FALSE
    /\ guard = [alive |-> FALSE, conn_ |-> FALSE, id_ |-> 0]
    /\ ops = 0
    /\ obs = <<>>
    /\ issued = <<>>
    /\ cancelled = {}
    /\ forwards = [calls |-> 0, fwd |-> 0]
    /\ zeroed = {}
    /\ wiped = 0
    /\ conns = [i \in Conns |-> NoHandle]
    /\ connlog = [i \in Conns |-> [held |-> 0, calls |-> 0, fwd |-> 0]]
    /\ other = [alive |-> FALSE, conn_ |-> FALSE, id_ |-> 0]
    /\ moved = <<>>
    /\ rel = <<>>
    /\ gone = FALSE

\* Client code (outside any call, or a listener) makes one more operation.
ClientOp ==
    /\ CanAct
    /\ ops < MaxOps
    /\ ops' = ops + 1

----------------------------------------------------------------------------
\* Operations on the registry, from outside any call or from inside a listener.

\* What add() does to the registry; st is the stack of calls it is made from.
\* The id returned is slots_.back().id.
AddEffect(st) ==
    LET s == emplace(slots_, highestID_)
        new == s[Len(s)]
        pos == Len(slots_)      \* 0-based position of the new node
    IN  /\ highestID_ < MaxID
        /\ slots_' = s
        /\ highestID_' = NextID(highestID_)
        /\ issued' = Append(issued, new.id)
        /\ obs' = << [op |-> "add", id |-> new.id, before |-> slots_,
                      cursors |-> [k \in 1..Len(st) |-> st[k].current]] >>
        /\ stack' = [k \in 1..Len(st) |->
                        [st[k] EXCEPT !.ev = @ \cup {"add"},
                                      !.ahead = IF st[k].current <= pos
                                                THEN @ \cup {new.fn} ELSE @]]
        /\ UNCHANGED <<callIter_, crashed, cancelled, zeroed, wiped>>

\* Callback::add.
Add ==
    /\ ClientOp
    /\ AddEffect(stack)
    /\ UNCHANGED <<guard, forwards, clientVars>>

\* What disconnect(id) does to the registry and to the frames; st is the
\* stack of calls it is made from and kind the history mark it leaves.
\* Undefined behaviour, each with the outcomes "nothing visible" and "crash":
\*   - checkErase through a callIter_ or above that points to a dead frame;
\*   - delete of a node whose function is executing.
DisconnectEffect(id, kind, st) ==
    LET r == disconnect(slots_, id)
        tgt == Target(slots_, id)
        erase == IF callIter_ # 0 THEN r.erase ELSE <<>>
        ub == \/ erase # <<>> /\ ~ChainOK
              \/ r.freed # 0 /\ \E k \in 1..Len(st) : st[k].run.fn = r.freed
    IN  /\ slots_' = r.slots
        /\ stack' = Note(EraseAll(st, erase), kind, {tgt} \ {0})
        /\ crashed' \in (IF ub THEN BOOLEAN ELSE {FALSE})
        /\ obs' = << [op |-> "disconnect", id |-> id, live |-> Live(slots_, id),
                      pos |-> IF Live(slots_, id)
                              THEN Min({i \in 1..Len(slots_) : slots_[i].id = id})
                              ELSE 0,
                      ret |-> r.ret, before |-> slots_, zeroed |-> zeroed,
                      cursors |-> [k \in 1..Len(st) |-> st[k].current]] >>
        /\ cancelled' = cancelled \cup ({tgt} \ {0})
        /\ zeroed' = zeroed \cup r.reset
        /\ UNCHANGED <<highestID_, callIter_, issued, wiped>>

\* Callback::disconnect, called with an id directly.
Disconnect(id) ==
    /\ ClientOp
    /\ DisconnectEffect(id, "cancel", stack)
    /\ UNCHANGED <<guard, forwards, clientVars>>

\* ConnectionT::disconnect on the handle {cb, slot.id} that call() passed to
\* the listener executing in the innermost call.
HandleDisconnect ==
    /\ ClientOp
    /\ stack # <<>>
    /\ LET d == Len(stack)
           h == stack[d].run
           st == [stack EXCEPT ![d].run.conn = FALSE, ![d].run.id = 0]
       IN  IF h.conn
           THEN DisconnectEffect(h.id, "self", st)
           ELSE /\ stack' = st
                /\ obs' = <<>>
                /\ UNCHANGED <<slots_, highestID_, callIter_, crashed, issued,
                               cancelled, zeroed, wiped>>
    /\ UNCHANGED <<guard, forwards, clientVars>>

\* Callback::clear.  No frame is told.  Emptying the chain destroys the
\* function of every node, also of one that is executing (undefined behaviour).
Clear ==
    /\ ClientOp
    /\ slots_' = clear(slots_)
    /\ stack' = Note(stack, "clear", Range(Fns(slots_)))
    /\ crashed' \in (IF \E k \in 1..Len(stack) : stack[k].run.fn \in Range(Fns(slots_))
                     THEN BOOLEAN ELSE {FALSE})
    /\ zeroed' = zeroed \cup ({slots_[i].id : i \in 1..Len(slots_)} \ {0})
    /\ wiped' = highestID_
    /\ obs' = << [op |-> "clear", before |-> slots_] >>
    /\ UNCHANGED <<highestID_, callIter_, issued, cancelled, guard, forwards,
                   clientVars>>

\* Variant of teardown: the destructor resets no id.
teardownNoReset(s) == {}

\* Callback::~Callback: the ids on which it calls reset(), those of the nodes
\* of the chain.
teardown(s) == {s[i].id : i \in 1..Len(s)} \ {0}

\* The Callback object is destroyed, from outside any call of it.  The
\* destructor resets the ids and does nothing else.
Destroy ==
    /\ ClientOp
    /\ stack = <<>>
    /\ gone' = TRUE
    /\ zeroed' = zeroed \cup teardown(slots_)
    /\ obs' = << [op |-> "destroy", before |-> slots_, zeroed |-> zeroed] >>
    /\ UNCHANGED <<slots_, highestID_, callIter_, stack, crashed, issued, cancelled,
                   wiped, guard, forwards, conns, connlog, other, moved, rel>>

\* Callback::operator=(func): clear(); return add(func).
Assign ==
    /\ ClientOp
    /\ highestID_ < MaxID
    /\ LET s == emplace(clear(slots_), highestID_)
           new == s[Len(s)]
           st == Note(stack, "clear", Range(Fns(slots_)))
       IN  /\ slots_' = s
           /\ highestID_' = NextID(highestID_)
           /\ issued' = Append(issued, new.id)
           /\ stack' = [k \in 1..Len(st) |->
                           [st[k] EXCEPT !.ev = @ \cup {"add"},
                                         !.ahead = IF st[k].current <= Len(s) - 1
                                                   THEN @ \cup {new.fn} ELSE @]]
           /\ obs' = << [op |-> "assign", id |-> new.id, before |-> slots_] >>
    /\ crashed' \in (IF \E k \in 1..Len(stack) : stack[k].run.fn \in Range(Fns(slots_))
                     THEN BOOLEAN ELSE {FALSE})
    /\ zeroed' = zeroed \cup ({slots_[i].id : i \in 1..Len(slots_)} \ {0})
    /\ wiped' = highestID_
    /\ UNCHANGED <<callIter_, cancelled, guard, forwards, clientVars>>

----------------------------------------------------------------------------
\* Callback::call, i.e. detail::CallbackCall<Ret>::call, one action per step.

\* The CallIter a call() pushes, with the history the model keeps in it.
NewFrame(a) ==
    [current |-> 0, next |-> 0, above |-> callIter_, run |-> NoConn,
     args |-> a, ret |-> <<>>,
     visited |-> <<>>, start |-> Fns(slots_),
     ev |-> {}, skip |-> {}, ahead |-> {}]

\* Variant of LoopTest: the loop stops one entry early.
LoopTestShort(f, s) == f.current + 1 < Len(s)

\* The loop test: idx < slots.size().
LoopTest(f, s) == f.current < Len(s)

\* The slot the loop takes: slots[idx].
SlotAt(f, s) == s[f.current + 1]

\* Variant of ArgFor: every call passes on the arguments of the outermost call.
ArgForOutermost(f) == stack[1].args

\* The argument a listener is invoked with.
ArgFor(f) == f.args

\* Entry of call(): stackIter.above = iter; iter = &stackIter.
CallBegin(a) ==
    /\ ClientOp
    /\ Len(stack) < MaxDepth
    /\ stack' = Append([k \in 1..Len(stack) |->
                          [stack[k] EXCEPT !.ev = @ \cup {"nested"}]],
                       NewFrame(a))
    /\ callIter_' = Len(stack) + 1
    /\ obs' = <<>>
    /\ UNCHANGED <<slots_, highestID_, crashed, issued, cancelled, guard, forwards,
                   zeroed, wiped, clientVars>>

\* One pass of the loop up to the invocation: the slot at idx is taken, idx is
\* incremented, and slot.func is entered with the handle {cb, slot.id}.
Invoke ==
    /\ ~crashed
    /\ stack # <<>>
    /\ LET d == Len(stack)
           f == stack[d]
       IN  /\ f.run.fn = 0
           /\ LoopTest(f, slots_)
           /\ LET slot == SlotAt(f, slots_)
              IN  /\ stack' = [stack EXCEPT
                     ![d].current = @ + 1,
                     ![d].run = [fn |-> slot.fn, conn |-> TRUE, id |-> slot.id],
                     ![d].visited = Append(@, <<slot.fn, ArgFor(f)>>)]
                  /\ obs' = << [op |-> "invoke", fn |-> slot.fn] >>
    /\ UNCHANGED <<slots_, highestID_, callIter_, crashed, issued, cancelled,
                   guard, forwards, ops, zeroed, wiped, clientVars>>

\* The listener returns: ret.push_back(its result).
Return ==
    /\ ~crashed
    /\ stack # <<>>
    /\ LET d == Len(stack)
           f == stack[d]
       IN  /\ f.run.fn # 0
           /\ stack' = [stack EXCEPT ![d].ret = Append(@, Result(f.run.fn)),
                                     ![d].run = NoConn]
    /\ obs' = <<>>
    /\ UNCHANGED <<slots_, highestID_, callIter_, crashed, issued, cancelled,
                   guard, forwards, ops, zeroed, wiped, clientVars>>

\* What callIter_ is after call() was left by an exception.  call() holds no
\* guard object and no handler: nothing runs during unwinding, "iter =
\* stackIter.above" is skipped.
IterAfterThrow(f) == callIter_

\* The listener throws.  The exception leaves call(): its frame is gone.  It
\* arrives in the listener that made this call, if there is one, which goes
\* on (it caught the exception) or throws in its turn.
Fail ==
    /\ ClientOp
    /\ stack # <<>>
    /\ LET d == Len(stack)
           f == stack[d]
       IN  /\ stack' = [k \in 1..(d - 1) |->
                          [stack[k] EXCEPT !.ev = @ \cup {"fail"}]]
           /\ callIter_' = IterAfterThrow(f)
           /\ obs' = << [op |-> "throw", depth |-> d, before |-> f.above,
                         after |-> IterAfterThrow(f), f |-> f,
                         chain |-> Fns(slots_)] >>
    /\ UNCHANGED <<slots_, highestID_, crashed, issued, cancelled, guard, forwards,
                   zeroed, wiped, clientVars>>

\* What callIter_ is after the loop: iter = stackIter.above.
IterAfterLoop(f) == f.above

\* The loop test fails: iter = stackIter.above; return ret.
CallEnd ==
    /\ ~crashed
    /\ stack # <<>>
    /\ LET d == Len(stack)
           f == stack[d]
       IN  /\ f.run.fn = 0
           /\ ~LoopTest(f, slots_)
           /\ stack' = SubSeq(stack, 1, d - 1)
           /\ callIter_' = IterAfterLoop(f)
           /\ obs' = << [op |-> "call", depth |-> d, f |-> f,
                         final |-> Fns(slots_)] >>
    /\ UNCHANGED <<slots_, highestID_, crashed, issued, cancelled, guard,
                   forwards, ops, zeroed, wiped, clientVars>>

----------------------------------------------------------------------------
\* ConnectionT objects held by client code.  With ID = TrackedConnectionID an
\* id is a pointer to a cell shared by the slot and by every copy of the
\* handle; the cell of the n-th registration is named n, the null pointer 0.

\* TrackedConnectionID::valid: value && *value.
Valid(id) == id # 0 /\ id \notin zeroed

\* ConnectionT(connectable, id): what add() returns.
HandleOf(id) == [conn |-> TRUE, id |-> id]

\* Variant of ConnCleared: the handle keeps what it held.
ConnKept(h) == h

\* The tail of ConnectionT::disconnect: connectable_ = {}; id_ = {}.
ConnCleared(h) == [h EXCEPT !.conn = FALSE, !.id = 0]

\* Client code keeps the connection that add() returns in handle i.
ConnAdd(i) ==
    /\ ClientOp
    /\ AddEffect(stack)
    /\ LET id == emplace(slots_, highestID_)[Len(slots_) + 1].id
       IN  /\ conns' = [conns EXCEPT ![i] = HandleOf(id)]
           /\ connlog' = [connlog EXCEPT ![i] = [held |-> id, calls |-> 0, fwd |-> 0]]
    /\ UNCHANGED <<guard, forwards, other, moved, rel, gone>>

\* Copy assignment of a connected handle: conns[j] = conns[i].
ConnCopy(i, j) ==
    /\ ClientOp
    /\ i # j
    /\ conns[i].conn
    /\ conns' = [conns EXCEPT ![j] = conns[i]]
    /\ connlog' = [connlog EXCEPT ![j] = [held |-> conns[i].id, calls |-> 0,
                                           fwd |-> 0]]
    /\ obs' = <<>>
    /\ UNCHANGED <<slots_, highestID_, callIter_, stack, crashed, issued, cancelled,
                   zeroed, wiped, guard, forwards, other, moved, rel, gone>>

\* ConnectionT::disconnect on handle i: if(connectable_)
\* connectable_->disconnect(id_); then the handle is cleared.
ConnDisconnect(i) ==
    /\ ClientOp
    /\ IF conns[i].conn
       THEN /\ DisconnectEffect(conns[i].id, "cancel", stack)
            /\ connlog' = [connlog EXCEPT ![i].calls = @ + 1, ![i].fwd = @ + 1]
       ELSE /\ connlog' = [connlog EXCEPT ![i].calls = @ + 1]
            /\ obs' = << [op |-> "noop", before |-> slots_] >>
            /\ UNCHANGED <<slots_, highestID_, callIter_, stack, crashed, issued,
                           cancelled, zeroed, wiped>>
    /\ conns' = [conns EXCEPT ![i] = ConnCleared(conns[i])]
    /\ UNCHANGED <<guard, forwards, other, moved, rel, gone>>

----------------------------------------------------------------------------
\* UniqueConnectionT, holding a registration of the Callback.

\* UniqueConnectionT(ConnectionT lhs): conn_(lhs.connectable()), id_(lhs.id()).
GuardOf(id) == [alive |-> TRUE, conn_ |-> TRUE, id_ |-> id]

\* Variant of GuardCleared: the guard keeps what it held.
GuardKept(g) == g

\* The tail of UniqueConnectionT::disconnect: conn_ = {}; id_ = {}.
GuardCleared(g) == [g EXCEPT !.conn_ = FALSE, !.id_ = 0]

\* UniqueConnectionT::disconnect: if(conn_) conn_->disconnect(id_); then the
\* guard is cleared.
GuardDisconnectEffect ==
    /\ IF guard.conn_
       THEN /\ DisconnectEffect(guard.id_, "cancel", stack)
            /\ forwards' = [calls |-> forwards.calls + 1, fwd |-> forwards.fwd + 1]
       ELSE /\ forwards' = [forwards EXCEPT !.calls = @ + 1]
            /\ obs' = <<>>
            /\ UNCHANGED <<slots_, highestID_, callIter_, stack, crashed, issued,
                           cancelled, zeroed, wiped>>

\* A guard is constructed from the connection that add() returns.
GuardAdd ==
    /\ ClientOp
    /\ ~guard.alive
    /\ AddEffect(stack)
    /\ guard' = GuardOf(emplace(slots_, highestID_)[Len(slots_) + 1].id)
    /\ forwards' = [calls |-> 0, fwd |-> 0]
    /\ moved' = <<>>
    /\ rel' = <<>>
    /\ UNCHANGED <<conns, connlog, other, gone>>

\* UniqueConnectionT::disconnect, called explicitly.
GuardDisconnect ==
    /\ ClientOp
    /\ guard.alive
    /\ GuardDisconnectEffect
    /\ guard' = GuardCleared(guard)
    /\ UNCHANGED clientVars

\* UniqueConnectionT::~UniqueConnectionT: disconnect(), then the object is gone.
GuardDestroy ==
    /\ ClientOp
    /\ guard.alive
    /\ GuardDisconnectEffect
    /\ guard' = [GuardCleared(guard) EXCEPT !.alive = FALSE]
    /\ UNCHANGED clientVars

\* What release() returns: auto cpy = id_; ... return cpy.
ReleaseRet(g) == g.id_

\* Variant of Released: the guard keeps what it held.
ReleasedKept(g) == g

\* What release() leaves in the guard: id_ = {}; conn_ = {}.
Released(g) == [g EXCEPT !.conn_ = FALSE, !.id_ = 0]

\* UniqueConnectionT::release.
GuardRelease ==
    /\ ClientOp
    /\ guard.alive
    /\ guard' = Released(guard)
    /\ rel' = << [id |-> guard.id_] >>
    /\ forwards' = [calls |-> 0, fwd |-> 0]
    /\ obs' = << [op |-> "release", ret |-> ReleaseRet(guard), held |-> guard.id_,
                  before |-> slots_] >>
    /\ UNCHANGED <<slots_, highestID_, callIter_, stack, crashed, issued, cancelled,
                   zeroed, wiped, conns, connlog, other, moved, gone>>

\* The second guard is constructed from the connection that add() returns.
OtherAdd ==
    /\ ClientOp
    /\ ~other.alive
    /\ AddEffect(stack)
    /\ other' = GuardOf(emplace(slots_, highestID_)[Len(slots_) + 1].id)
    /\ UNCHANGED <<guard, forwards, conns, connlog, moved, rel, gone>>

\* The destructor of the second guard.
OtherDestroy ==
    /\ ClientOp
    /\ other.alive
    /\ IF other.conn_
       THEN /\ DisconnectEffect(other.id_, "cancel", stack)
            /\ moved' = [k \in 1..Len(moved) |->
                            [moved[k] EXCEPT !.bySrc =
                                IF other.id_ = moved[k].src.id_ THEN @ + 1 ELSE @]]
       ELSE /\ obs' = <<>>
            /\ UNCHANGED <<slots_, highestID_, callIter_, stack, crashed, issued,
                           cancelled, zeroed, wiped, moved>>
    /\ other' = [GuardCleared(other) EXCEPT !.alive = FALSE]
    /\ UNCHANGED <<guard, forwards, conns, connlog, rel, gone>>

\* Variant of MovedFrom: the source of a move keeps what it held.
MovedFromKept(g) == g

\* What a move leaves in its source: lhs.conn_ = {}; lhs.id_ = {}.
MovedFrom(g) == [g EXCEPT !.conn_ = FALSE, !.id_ = 0]

\* What a move puts into its destination: conn_ = lhs.conn_; id_ = lhs.id_.
MovedTo(g, lhs) == [g EXCEPT !.conn_ = lhs.conn_, !.id_ = lhs.id_]

\* UniqueConnectionT::operator=(UniqueConnectionT&&): guard = std::move(other).
\* disconnect() first, then the members are taken over and the source emptied.
MoveAssign ==
    /\ ClientOp
    /\ guard.alive
    /\ other.alive
    /\ IF guard.conn_
       THEN DisconnectEffect(guard.id_, "cancel", stack)
       ELSE /\ obs' = <<>>
            /\ UNCHANGED <<slots_, highestID_, callIter_, stack, crashed, issued,
                           cancelled, zeroed, wiped>>
    /\ guard' = MovedTo(guard, other)
    /\ other' = MovedFrom(other)
    /\ moved' = << [src |-> other, dst |-> guard, at |-> ops + 1,
                    fwd |-> IF guard.conn_ THEN guard.id_ ELSE 0, bySrc |-> 0] >>
    /\ forwards' = [calls |-> 0, fwd |-> 0]
    /\ rel' = <<>>
    /\ UNCHANGED <<conns, connlog, gone>>

\* UniqueConnectionT(UniqueConnectionT&&): the guard is constructed from
\* std::move(other).
MoveConstruct ==
    /\ ClientOp
    /\ ~guard.alive
    /\ other.alive
    /\ guard' = MovedTo([guard EXCEPT !.alive = TRUE], other)
    /\ other' = MovedFrom(other)
    /\ moved' = << [src |-> other, dst |-> guard, at |-> ops + 1, fwd |-> 0,
                    bySrc |-> 0] >>
    /\ forwards' = [calls |-> 0, fwd |-> 0]
    /\ rel' = <<>>
    /\ obs' = <<>>
    /\ UNCHANGED <<slots_, highestID_, callIter_, stack, crashed, issued, cancelled,
                   zeroed, wiped, conns, connlog, gone>>

----------------------------------------------------------------------------
Next ==
    \/ Add
    \/ \E id \in 0..MaxID : Disconnect(id)
    \/ HandleDisconnect
    \/ Clear
    \/ \E a \in Args : CallBegin(a)
    \/ Invoke
    \/ Return
    \/ Fail
    \/ CallEnd

Spec == Init /\ [][Next]_vars

NextGuard ==
    \/ Next
    \/ GuardAdd
    \/ GuardDisconnect
    \/ GuardDestroy

SpecGuard == Init /\ [][NextGuard]_vars

\* The Callback with operator=(func).
NextClear ==
    \/ Next
    \/ Assign

SpecClear == Init /\ [][NextClear]_vars

\* The Callback used, outside any call, directly and through two guards.
NextMove ==
    \/ Add
    \/ \E id \in 0..MaxID : Disconnect(id)
    \/ GuardAdd
    \/ GuardDisconnect
    \/ GuardDestroy
    \/ GuardRelease
    \/ OtherAdd
    \/ OtherDestroy
    \/ MoveAssign
    \/ MoveConstruct

SpecMove == Init /\ [][NextMove]_vars

\* The Callback used, outside any call, directly and through ConnectionT
\* objects that client code keeps.
NextConn ==
    \/ Add
    \/ \E id \in 0..MaxID : Disconnect(id)
    \/ Clear
    \/ \E i \in Conns : ConnAdd(i)
    \/ \E i, j \in Conns : ConnCopy(i, j)
    \/ \E i \in Conns : ConnDisconnect(i)

SpecConn == Init /\ [][NextConn]_vars

\* The Callback with its calls, the ConnectionT objects client code keeps of
\* its registrations, and its destruction.
NextTeardown ==
    \/ Add
    \/ \E id \in 0..MaxID : Disconnect(id)
    \/ CallBegin(Min(Args))
    \/ Invoke
    \/ Return
    \/ CallEnd
    \/ \E i \in Conns : ConnAdd(i)
    \/ \E i, j \in Conns : ConnCopy(i, j)
    \/ Destroy

SpecTeardown == Init /\ [][NextTeardown]_vars

----------------------------------------------------------------------------
\* Properties.

\* The call() that has just returned, if the last step was such a return.
Returned == {obs[i] : i \in {j \in 1..Len(obs) : obs[j].op = "call"}}

\* The disconnect(id) that has just returned.
Disconnected == {obs[i] : i \in {j \in 1..Len(obs) : obs[j].op = "disconnect"}}

\* The call() that has just been left by an exception.
Thrown == {obs[i] : i \in {j \in 1..Len(obs) : obs[j].op = "throw"}}

\* How often listener fn was invoked by the call of frame f.
Count(f, fn) == Cardinality({i \in 1..Len(f.visited) : f.visited[i][1] = fn})

\* The sequence s without the members of the set S.
Without(s, S) == LET Keep(x) == x \notin S IN SelectSeq(s, Keep)

\* C1: a call() during which no listener cancels, adds, clears or fails
\* invokes each listener registered at its start exactly once, in registration
\* order, and returns their results in that order.
C1_CallInvokesEachOnceInOrder ==
    \A c \in Returned :
        c.f.ev \cap {"cancel", "self", "add", "clear", "fail"} = {}
        => /\ VisitedFns(c.f) = c.f.start
           /\ c.f.ret = [i \in 1..Len(c.f.start) |-> Result(c.f.start[i])]

C1_Witness ==
    \E c \in Returned :
        /\ c.f.ev \cap {"cancel", "self", "add", "clear", "fail"} = {}
        /\ Len(c.f.start) >= 2
        /\ Len(c.f.ret) >= 2

\* C2: disconnect(id) returns true exactly when an entry with that id is
\* registered when it is called, wherever that entry is in the chain.
C2_DisconnectReturnsWhetherLive ==
    \A c \in Disconnected : c.ret = c.live

\* C3: after disconnect(id) on a registered entry, a call() begun later does
\* not invoke the cancelled listener and invokes the others in order.
C3_CancelledNotInvokedByLaterCall ==
    /\ \A k \in 1..Len(stack) :
          stack[k].ev \cap {"cancel", "self"} = {}
          => Range(VisitedFns(stack[k])) \cap cancelled = {}
    /\ \A c \in Returned :
          c.f.ev \subseteq {"nested"}
          => VisitedFns(c.f) = Without(c.f.start, cancelled)

\* C4: within one call(), a listener cancelled before the call visited it is
\* not invoked by the call, and every other listener is invoked exactly once,
\* in registration order, whatever already visited listeners were cancelled.
C4_CancelDuringCall ==
    \A c \in Returned :
        (c.f.ev \subseteq {"cancel", "self", "nested"})
        => VisitedFns(c.f) = Without(c.f.start, c.f.skip)

\* C5: when the only thing listeners do during a call() is to disconnect
\* themselves through the handle they were given, the loop still invokes every
\* listener exactly once, in registration order.
C5_SelfDisconnectKeepsLoop ==
    \A c \in Returned :
        (c.f.ev \subseteq {"self"}) => VisitedFns(c.f) = c.f.start

\* C6: a listener added during a call() at a position the cursor has not
\* passed (and not cancelled since) is invoked exactly once by that call; one
\* added behind the cursor is not invoked by it; none is invoked twice.
C6_AddedAheadInvokedOnce ==
    \A c \in Returned :
        /\ \A fn \in c.f.ahead \ c.f.skip : Count(c.f, fn) = 1
        /\ \A fn \in Range(VisitedFns(c.f)) :
              /\ Count(c.f, fn) = 1
              /\ fn \in Range(c.f.start) \cup c.f.ahead

C8_IdsStrictlyIncreasing ==
    /\ \A i \in 1..Len(issued) : issued[i] # 0
    /\ \A i \in 1..Len(issued) : \A j \in 1..Len(issued) :
          i < j => issued[i] < issued[j]

C8_Witness ==
    /\ Len(issued) >= 3
    /\ cancelled # {}
    /\ Len(slots_) = 1

\* C9: when call() is left by an exception, callIter_ is again what it was
\* before that call() began.
C9_FramePoppedOnThrow ==
    \A c \in Thrown : c.after = c.before

\* C10: a guard forwards disconnect(id) to the registry at most once for the
\* registration it holds; after the first disconnect() it is empty.
C10_GuardCancelsAtMostOnce ==
    /\ forwards.fwd <= 1
    /\ forwards.calls >= 1 => (~guard.conn_ /\ guard.id_ = 0)

C10_Witness ==
    /\ ~guard.alive
    /\ forwards.calls >= 3
    /\ forwards.fwd = 1

\* The disconnect() of a handle that has just returned without forwarding.
Unforwarded == {obs[i] : i \in {j \in 1..Len(obs) : obs[j].op = "noop"}}

\* The listener a tracked id was issued for is still in the chain.
Registered(id) == \E k \in 1..Len(slots_) : slots_[k].fn = id

\* C11: with tracked ids, after disconnect(id) of a live registration (directly
\* or through a handle) every handle that shares the id reports valid() false,
\* and no handle of another listener that is still registered, valid before,
\* has become invalid.
C11_TrackedHandlesFollowCancel ==
    \A c \in Disconnected : c.live =>
        /\ ~Valid(c.id)
        /\ \A i \in Conns :
              /\ conns[i].id = c.id => ~Valid(conns[i].id)
              /\ (/\ conns[i].id \notin {0, c.id}
                  /\ conns[i].id \notin c.zeroed
                  /\ Registered(conns[i].id)) => Valid(conns[i].id)

\* C12: a ConnectionT forwards disconnect(id) to its registry on the first
\* disconnect() only (if it was given a registration) and is empty afterwards;
\* a later disconnect() forwards nothing and leaves the registry as it was.
C12_HandleDisconnectIdempotent ==
    /\ \A i \in Conns :
          /\ connlog[i].fwd <= 1
          /\ connlog[i].calls >= 1 =>
                /\ conns[i] = NoHandle
                /\ connlog[i].fwd = (IF connlog[i].held # 0 THEN 1 ELSE 0)
    /\ \A c \in Unforwarded : slots_ = c.before

C12_Witness ==
    \E i \in Conns :
        /\ connlog[i].held # 0
        /\ connlog[i].calls >= 2
        /\ connlog[i].fwd = 1

\* The clear() or operator=(func) that has just returned.
Cleared == {obs[i] : i \in {j \in 1..Len(obs) : obs[j].op \in {"clear", "assign"}}}

\* The listener that has just been entered.
Invoked == {obs[i] : i \in {j \in 1..Len(obs) : obs[j].op = "invoke"}}

\* C13: after clear() (also from inside a listener, also under nested calls) the
\* chain holds no entry registered before it, every id issued before it is
\* invalid - a later disconnect(id) of it returns false, its tracked cell is
\* 0 - and no call, in progress or new, invokes a listener registered before it.
C13_ClearRemovesAll ==
    /\ \A c \in Cleared : \A i \in 1..Len(slots_) : slots_[i].id \notin 0..wiped
    /\ \A c \in Cleared : c.op = "clear" => slots_ = <<>>
    /\ \A i \in 1..Len(slots_) : slots_[i].fn > wiped
    /\ \A id \in 1..wiped : ~Live(slots_, id) /\ ~Valid(id)
    /\ \A c \in Disconnected : c.id \in 1..wiped => (~c.live /\ ~c.ret)
    /\ \A c \in Invoked : c.fn > wiped

C13_Witness ==
    /\ wiped >= 2
    /\ \E c \in Returned :
          /\ {"clear", "nested"} \subseteq c.f.ev
          /\ Len(c.f.start) >= 2
          /\ Len(c.f.visited) < Len(c.f.start)

\* The release() that has just returned.
Releases == {obs[i] : i \in {j \in 1..Len(obs) : obs[j].op = "release"}}

\* C14: a move of guard src into guard dst first forwards disconnect for what
\* dst held (if anything); right after it dst holds what src held and src is
\* empty; from then on src never forwards a disconnect of the registration it
\* gave away, and dst forwards it at most once.
C14_MoveTransfersRegistration ==
    \A k \in 1..Len(moved) :
        LET m == moved[k]
        IN  /\ m.fwd = (IF m.dst.conn_ THEN m.dst.id_ ELSE 0)
            /\ ops = m.at =>
                  /\ guard = [alive |-> TRUE, conn_ |-> m.src.conn_, id_ |-> m.src.id_]
                  /\ other = [alive |-> TRUE, conn_ |-> FALSE, id_ |-> 0]
                  /\ m.fwd # 0 => \E c \in Disconnected : c.id = m.fwd
                  /\ m.fwd = 0 => Disconnected = {}
            /\ m.bySrc = 0
            /\ forwards.fwd <= 1
            /\ guard.conn_ => guard.id_ = m.src.id_

C14_Witness ==
    \E k \in 1..Len(moved) :
        /\ moved[k].dst.conn_
        /\ moved[k].src.conn_
        /\ ~other.alive
        /\ ~guard.alive
        /\ forwards.fwd = 1

\* C15: release() returns the id the guard held (0 for an empty guard), leaves
\* the guard empty and the registry as it was, and no later disconnect() or
\* destruction of the guard forwards a disconnect.
C15_ReleaseDoesNotCancel ==
    /\ \A c \in Releases :
          /\ c.ret = c.held
          /\ slots_ = c.before
          /\ Live(c.before, c.held) => Live(slots_, c.held)
    /\ rel # <<>> =>
          /\ ~guard.conn_
          /\ guard.id_ = 0
          /\ forwards.fwd = 0

C15_Witness ==
    /\ rel # <<>>
    /\ ~guard.alive
    /\ forwards.calls >= 1
    /\ Live(slots_, rel[1].id)

\* The listener a cursor at position cur of chain s takes next (0: it is at
\* the end).
Designated(cur, s) == IF cur < Len(s) THEN s[cur + 1].fn ELSE 0

\* C16: the cursor of every call in progress is a position of the chain or its
\* end; when disconnect(id) cancels the entry that the cursor of a call in
\* progress designates, that cursor designates the entry's successor
\* afterwards; and no call, enclosing or innermost, enters a listener that was
\* cancelled while the call was in progress and had not reached it.
C16_CursorsRepairedOnCancel ==
    /\ \A k \in 1..Len(stack) : stack[k].current <= Len(slots_)
    /\ \A c \in Disconnected : c.live =>
          \A k \in 1..Len(stack) :
              Designated(c.cursors[k], c.before) = c.before[c.pos].fn =>
                  Designated(stack[k].current, slots_) = Designated(c.pos, c.before)
    /\ \A c \in Invoked : c.fn \notin stack[Len(stack)].skip

\* C17: disconnect(id) changes nothing but the entry it targets: when it
\* returns true the chain is the chain before without the entry that carried
\* id, every other entry in its place with its id; when it returns false the
\* chain is the chain before.
C17_CancelTouchesOnlyTarget ==
    \A c \in Disconnected :
        LET Other(x) == x.id # c.id
        IN  /\ c.ret => (c.live /\ slots_ = SelectSeq(c.before, Other))
            /\ ~c.ret => slots_ = c.before

\* C18: the ids of the entries of the chain are nonzero and pairwise distinct.
C18_LiveIdsDistinctNonzero ==
    \A i, j \in 1..Len(slots_) :
        /\ slots_[i].id # 0
        /\ i # j => slots_[i].id # slots_[j].id

\* C19: callIter_ and the above links lead through exactly the frames of the
\* call() invocations in progress, innermost first, each frame's above being
\* the frame that was innermost when it was pushed; when the outermost call()
\* has returned normally callIter_ is null.
C19_FrameChainMatchesCalls ==
    /\ callIter_ = Len(stack)
    /\ \A k \in 1..Len(stack) : stack[k].above = k - 1
    /\ \A c \in Returned : c.depth = 1 => callIter_ = 0

\* The add() that has just returned.
Added == {obs[i] : i \in {j \in 1..Len(obs) : obs[j].op = "add"}}

\* An add() appends: the chain before is a prefix of the chain after, and the
\* new entry is the last one.
Appended(c) ==
    /\ Len(slots_) = Len(c.before) + 1
    /\ SubSeq(slots_, 1, Len(c.before)) = c.before
    /\ slots_[Len(slots_)].id = c.id

\* A call() during which listeners did nothing but add and call has invoked
\* the listeners registered at its start once each, in order, before any other.
StartKept ==
    \A c \in Returned :
        c.f.ev \subseteq {"add", "nested"} =>
            /\ Len(c.f.visited) >= Len(c.f.start)
            /\ SubSeq(VisitedFns(c.f), 1, Len(c.f.start)) = c.f.start
            /\ \A fn \in Range(c.f.start) : Count(c.f, fn) = 1

\* C20 as stated: add() appends at the tail, every existing entry keeps its id
\* and position, and the cursor of every call in progress designates the same
\* next listener (or none) as before the add.
C20_AddLeavesCursorTargets ==
    /\ StartKept
    /\ \A c \in Added :
          /\ Appended(c)
          /\ \A k \in 1..Len(stack) :
                Designated(stack[k].current, slots_) = Designated(c.cursors[k], c.before)

\* C20, amended: add() appends at the tail, every existing entry keeps its id
\* and position, and the cursor of every call in progress keeps its position:
\* a cursor that designated a listener still designates it, a cursor that was
\* exactly at the end of the chain designates the new entry, a cursor beyond
\* the end designates none.
C20_AddKeepsCursorPositions ==
    /\ StartKept
    /\ \A c \in Added :
          /\ Appended(c)
          /\ \A k \in 1..Len(stack) :
                LET was == Designated(c.cursors[k], c.before)
                    is == Designated(stack[k].current, slots_)
                IN  /\ stack[k].current = c.cursors[k]
                    /\ was # 0 => is = was
                    /\ c.cursors[k] = Len(c.before) => is = slots_[Len(slots_)].fn
                    /\ c.cursors[k] > Len(c.before) => is = 0

C20_Witness ==
    \E c \in Added :
        /\ Len(stack) = 2
        /\ Len(c.before) >= 2
        /\ c.cursors[1] < Len(c.before)
        /\ c.cursors[2] = Len(c.before)

\* The positions of listener fn in the sequence of listeners s.
PosOf(s, fn) == {i \in 1..Len(s) : s[i] = fn}

\* C21: when a listener fails during call(), the call is left at once - its
\* frame is gone, the failing listener was entered once and is the last one
\* the call entered - and every listener that stands before the failing one
\* in the chain has been invoked exactly once by that call.
C21_FailureEndsPass ==
    \A c \in Thrown :
        LET vis == VisitedFns(c.f)
            bad == c.f.run.fn
        IN  /\ Len(stack) = c.depth - 1
            /\ vis # <<>> /\ vis[Len(vis)] = bad
            /\ Count(c.f, bad) = 1
            /\ \A p \in PosOf(c.chain, bad) :
                  \A i \in 1..(p - 1) : Count(c.f, c.chain[i]) = 1

\* C22: a call() in which no listener adds or calls invokes at most as many
\* listeners as were registered when it began, whatever its listeners cancel
\* or clear; it can always go on to its end (the process has not ended under
\* it); and when it returns its frame is popped.
C22_CallRunsToCompletion ==
    /\ \A k \in 1..Len(stack) :
          stack[k].ev \cap {"add", "nested"} = {} =>
              Len(stack[k].visited) <= Len(stack[k].start)
    /\ \A c \in Returned :
          /\ c.f.ev \cap {"add", "nested"} = {} => Len(c.f.visited) <= Len(c.f.start)
          /\ Len(stack) = c.depth - 1
          /\ callIter_ = c.f.above
    /\ \A k \in 1..Len(stack) :
          stack[k].ev \subseteq {"cancel", "self", "clear"} => ~crashed

\* The destructor that has just run.
Destroyed == {obs[i] : i \in {j \in 1..Len(obs) : obs[j].op = "destroy"}}

\* C23: the destruction of the Callback enters no listener and leaves no call
\* in progress; afterwards the tracked id of every registration that was in
\* the chain, and of every registration ever made, is invalid, and so is the
\* id held by every handle; valid() reads the shared cell only.
C23_TeardownInvalidates ==
    /\ \A c \in Destroyed :
          /\ gone
          /\ \A i \in 1..Len(c.before) : ~Valid(c.before[i].id)
    /\ gone =>
          /\ Invoked = {}
          /\ stack = <<>>
          /\ \A id \in 1..highestID_ : ~Valid(id)
          /\ \A i \in Conns : ~Valid(conns[i].id)

C23_Witness ==
    \E c \in Destroyed :
        /\ conns[1].id = conns[2].id
        /\ conns[1].id \in teardown(c.before) \ c.zeroed
        /\ Cardinality(teardown(c.before) \ c.zeroed) >= 2

====
